---- MODULE Spec2Model ----
(***************************************************************************)
(* Model of code/server.py: the digital-twin streaming loop.               *)
(*                                                                         *)
(* One coroutine (websocket_endpoint) runs per connected client on a       *)
(* single asyncio event loop.  The module-level variables history, time    *)
(* and damage_state are shared by all coroutines.  A coroutine runs        *)
(* without interruption between two awaits, so the code between the top of *)
(* the while loop (line 44) and the call of ws.send_json (line 112) is one *)
(* atomic step; `await ws.send_json` and `await asyncio.sleep` are the     *)
(* points where another coroutine may run.                                 *)
(*                                                                         *)
(* Numbers.  The Python floats are modelled in fixed point:                *)
(*   - damage, thresholds and rul in units of 10^-5 (1.0 is 100000);       *)
(*   - stresses in units of 250, so that 0.00000004 * stress is exactly    *)
(*     one damage unit per stress unit (4e-8 * 250 = 1e-5);                *)
(*   - time in units of TIME_STEP;                                         *)
(*   - global_deflection (5.5) in tenths.                                  *)
(* Divisions round down.  NaN is a distinguished value with the IEEE       *)
(* behaviour of the operations the code applies to it.                     *)
(***************************************************************************)
EXTENDS Integers, Sequences, FiniteSets

\* ------------------------------------------------------------- bounds
\* clients that connect, damage updates explored, and the mesh resolution
\* (server.py runs with 50; the loops are the same for any value)
NumSessions == 2
MaxTicks == 12
RESOLUTION == 2
\* damage updates explored when the damage law is iterated on its own
MaxLawTicks == 480

Sessions == 1..NumSessions

\* ------------------------------------------------------------- settings
BEAM_LENGTH == 1050
BEAM_HEIGHT == 300
FAILURE_THRESHOLD == 90000
TIME_STEP == 1
MAXLEN == 10
InitDamage == 5000
ONE == 100000
G0 == 200
NaN == 2000000000

VARIABLES
    scalers,         \* the table read from scaler_params.json
    pinn,            \* the loaded surrogate model
    history,         \* deque(maxlen=10) of <<max_stress, avg_stress>>
    time,            \* global clock
    damage_state,    \* global damage
    pc,              \* per session: where its coroutine stands
    msg,             \* per session: <<m>>, m the message send_json is sending, or <<>>
    fail,            \* per session: the exception that ended its coroutine
    ticks,           \* history: number of damage updates so far
    pushed,          \* history: every sample appended to history, in order
    trajectory,      \* history: per damage update, the severity read and the damage written
    last_time,       \* history: the time value of the message formed last, or -1
    lstm_calls,      \* history: the tick numbers in which lstm.predict was called
    pinn_calls       \* history: pinn.predict calls made for the stress field computed last

vars == <<scalers, pinn, history, time, damage_state, pc, msg,
          fail, ticks, pushed, trajectory, last_time, lstm_calls, pinn_calls>>

\* ------------------------------------------------------------- floats
IsNaN(v) == v = NaN

FAdd(a, b) == IF IsNaN(a) \/ IsNaN(b) THEN NaN ELSE a + b

\* a < b on floats: false when either side is NaN
FLess(a, b) == ~IsNaN(a) /\ ~IsNaN(b) /\ a < b

\* Python's min(a, b): b only if b < a
PyMin(a, b) == IF FLess(b, a) THEN b ELSE a

RECURSIVE SeqSum(_)
SeqSum(f) == IF f = <<>> THEN 0 ELSE Head(f) + SeqSum(Tail(f))

HasNaN(f) == \E i \in 1..Len(f) : IsNaN(f[i])

\* np.max(list): NaN if any element is NaN
NpMax(f) ==
    IF HasNaN(f) THEN NaN
    ELSE CHOOSE m \in {f[i] : i \in 1..Len(f)} : \A i \in 1..Len(f) : f[i] <= m

\* np.mean(list)
NpMean(f) == IF HasNaN(f) THEN NaN ELSE SeqSum(f) \div Len(f)

\* ------------------------------------------------------------- scalers
RequiredKeys == {"x", "y", "load_mag", "global_deflection", "fc", "fy"}

FullTable ==
    [k \in RequiredKeys |->
        CASE k = "x" -> [mean |-> 0, scale |-> 175]
          [] k = "y" -> [mean |-> 0, scale |-> 50]
          [] k = "load_mag" -> [mean |-> 50000, scale |-> 1]
          [] k = "global_deflection" -> [mean |-> 55, scale |-> 1]
          [] k = "fc" -> [mean |-> 25, scale |-> 1]
          [] k = "fy" -> [mean |-> 314, scale |-> 1]]

ScalerTables ==
    {FullTable, [k \in RequiredKeys \ {"fc"} |-> FullTable[k]]}

\* scalers[key] raises KeyError when the key is missing
HasKeys == RequiredKeys \subseteq DOMAIN scalers

norm(val, key) == (val - scalers[key].mean) \div scalers[key].scale

\* ------------------------------------------------------------- mesh
NumPoints == (RESOLUTION + 1) * (RESOLUTION + 1)

\* variant: x is the index of the outer loop
LoopX_Outer(k) == (k - 1) \div (RESOLUTION + 1)

\* the k-th iteration of the nested loops, y outer and x inner
LoopY(k) == (k - 1) \div (RESOLUTION + 1)
LoopX(k) == (k - 1) % (RESOLUTION + 1)

\* (x / RESOLUTION - 0.5) * BEAM_LENGTH
phys_x(x) == ((2 * x - RESOLUTION) * BEAM_LENGTH) \div (2 * RESOLUTION)
phys_y(y) == ((2 * y - RESOLUTION) * BEAM_HEIGHT) \div (2 * RESOLUTION)

Features(x, y) ==
    << norm(phys_x(x), "x"),
       norm(phys_y(y), "y"),
       norm(50000, "load_mag"),
       norm(55, "global_deflection"),
       norm(25, "fc"),
       norm(314, "fy") >>

\* ------------------------------------------------------------- surrogate
\* The loaded model is a fixed function of its input row; the models
\* considered are affine in the two coordinates, or return NaN.
PinnModels ==
    { [bias |-> 400, wx |-> 40, wy |-> 20, nan |-> FALSE],
      [bias |-> 12000, wx |-> 40, wy |-> 20, nan |-> FALSE],
      [bias |-> -800, wx |-> 40, wy |-> 20, nan |-> FALSE],
      [bias |-> 0, wx |-> 0, wy |-> 0, nan |-> TRUE] }

\* pinn.predict(X)[0]: the row <<strain, stress, damage>>
pinn_predict(X) ==
    IF pinn.nan THEN <<0, NaN, 0>>
    ELSE <<0, pinn.bias + pinn.wx * X[1] + pinn.wy * X[2], 0>>

base_stress(x, y) == pinn_predict(Features(x, y))[2]

\* variant: the severity is weighted with 1.0 instead of 2.5
Amplify_Unit(base, c) == IF IsNaN(base) THEN NaN ELSE (base * (100000 + c)) \div 100000

\* base_stress * (1.0 + 2.5 * crack_severity), severity in units of 10^-5:
\* 1 + 2.5 c / 100000 = (40000 + c) / 40000
Amplify(base, c) == IF IsNaN(base) THEN NaN ELSE (base * (40000 + c)) \div 40000

\* line 75 is the body of both loops: one predict call, on one row, per point
PredictCalls == NumPoints

StressField(c) ==
    [k \in 1..NumPoints |-> Amplify(base_stress(LoopX(k), LoopY(k)), c)]

\* ------------------------------------------------------------- damage law
\* variant: the base growth is 0.001
growth_rate_Slow(max_stress) == FAdd(100, max_stress)

\* 0.002 + 0.00000004 * max_stress
growth_rate(max_stress) == FAdd(G0, max_stress)

\* min(1.0, damage_state + growth_rate)
NextDamage(d, max_stress) == PyMin(ONE, FAdd(d, growth_rate(max_stress)))

\* ------------------------------------------------------------- history
\* variant: at capacity the newest sample is dropped instead of the oldest
DequeAppend_DropNewest(h, sample) ==
    IF Len(h) = MAXLEN THEN Append(SubSeq(h, 1, Len(h) - 1), sample)
    ELSE Append(h, sample)

\* variant: at capacity the window is emptied before the sample is added
DequeAppend_Restart(h, sample) ==
    IF Len(h) = MAXLEN THEN <<sample>> ELSE Append(h, sample)

\* deque(maxlen=10).append(sample)
DequeAppend(h, sample) ==
    IF Len(h) = MAXLEN THEN Append(Tail(h), sample) ELSE Append(h, sample)

\* ------------------------------------------------------------- prognostics
\* variant: the window counts as full one sample early
WindowFull_Early(h) == Len(h) >= MAXLEN - 1

\* line 100: len(history) == history.maxlen
WindowFull(h) == Len(h) = MAXLEN

\* the values lstm.predict may return
LstmOutputs == {85000, 90000, 95000, NaN}

\* variant: the rul is not clamped at the threshold
RUL_NoClamp(damage_pred) ==
    IF IsNaN(damage_pred) THEN 0
    ELSE (FAILURE_THRESHOLD - damage_pred) \div TIME_STEP

\* lines 104-107
RUL(damage_pred) ==
    IF FLess(damage_pred, FAILURE_THRESHOLD)
    THEN (FAILURE_THRESHOLD - damage_pred) \div TIME_STEP
    ELSE 0

\* variant: rul defaults to 0.0 instead of None
DefaultResult_ZeroRul(d) == [damage_pred |-> d, rul |-> <<0>>]

\* lines 97-98: damage_pred = damage_state, rul = None
DefaultResult(d) == [damage_pred |-> d, rul |-> <<>>]

\* lines 102-107: the prediction and the rul derived from it
Prognosis(damage_pred) == [damage_pred |-> damage_pred, rul |-> <<RUL(damage_pred)>>]

\* lines 112-117: the dictionary handed to send_json
Message(t, stress_field, r) ==
    [time |-> t,
     stress_field |-> stress_field,
     damage_prediction |-> r.damage_pred,
     rul |-> r.rul]

\* ------------------------------------------------------------- sessions
\* variant: each connection reads a damage value of its own
Snapshot_PerSession(s) == InitDamage

\* line 50: crack_severity = damage_state
Snapshot(s) == damage_state

\* variant: an uncaught exception ends every coroutine
Terminate_All(s) == [t \in Sessions |-> "closed"]

\* an uncaught exception ends the coroutine that raised it
Terminate(s) == [pc EXCEPT ![s] = "closed"]

Init ==
    /\ scalers \in ScalerTables
    /\ pinn \in PinnModels
    /\ history = <<>>
    /\ time = 0
    /\ damage_state = InitDamage
    /\ pc = [s \in Sessions |-> "idle"]
    /\ msg = [s \in Sessions |-> <<>>]
    /\ fail = [s \in Sessions |-> "none"]
    /\ ticks = 0
    /\ pushed = <<>>
    /\ trajectory = <<>>
    /\ last_time = -1
    /\ lstm_calls = <<>>
    /\ pinn_calls = 0

\* variant: the simulation state is set up anew for every connection
Connect_Reset(s) ==
    /\ pc[s] = "idle"
    /\ pc' = [pc EXCEPT ![s] = "loop"]
    /\ history' = <<>>
    /\ time' = 0
    /\ damage_state' = InitDamage
    /\ UNCHANGED <<scalers, pinn, msg, fail, ticks, pushed, trajectory,
                   last_time, lstm_calls, pinn_calls>>

\* lines 38-42: a client connects and the handshake completes
Connect(s) ==
    /\ pc[s] = "idle"
    /\ pc' = [pc EXCEPT ![s] = "loop"]
    /\ UNCHANGED <<scalers, pinn, history, time, damage_state, msg,
                   fail, ticks, pushed, trajectory, last_time, lstm_calls, pinn_calls>>

\* lines 44-73: a missing scaler entry raises KeyError in the first norm call
\* that needs it, before the surrogate is called
TickKeyError(s) ==
    /\ pc[s] = "loop"
    /\ ~HasKeys
    /\ pc' = Terminate(s)
    /\ fail' = [fail EXCEPT ![s] = "KeyError"]
    /\ UNCHANGED <<scalers, pinn, history, time, damage_state, msg,
                   ticks, pushed, trajectory, last_time, lstm_calls, pinn_calls>>

\* lines 44-75: pinn.predict raises at some mesh point
TickPinnFail(s) ==
    /\ pc[s] = "loop"
    /\ HasKeys
    /\ pc' = Terminate(s)
    /\ fail' = [fail EXCEPT ![s] = "pinn"]
    /\ UNCHANGED <<scalers, pinn, history, time, damage_state, msg,
                   ticks, pushed, trajectory, last_time, lstm_calls, pinn_calls>>

\* lines 44-92: stress field, damage update and history append
Evolve(s, stress_field) ==
    LET max_stress == NpMax(stress_field)
        avg_stress == NpMean(stress_field)
    IN  /\ damage_state' = NextDamage(damage_state, max_stress)
        /\ history' = DequeAppend(history, <<max_stress, avg_stress>>)
        /\ ticks' = ticks + 1
        /\ pushed' = Append(pushed, <<max_stress, avg_stress>>)
        /\ trajectory' = Append(trajectory, [read |-> Snapshot(s), written |-> damage_state'])
        /\ pinn_calls' = PredictCalls

\* lines 44-112, window not full: the message is formed without prognostics
\* and the coroutine suspends in send_json
TickNoPrognostics(s) ==
    /\ pc[s] = "loop"
    /\ HasKeys
    /\ ticks < MaxTicks
    /\ LET stress_field == StressField(Snapshot(s))
       IN  /\ Evolve(s, stress_field)
           /\ ~WindowFull(history')
           /\ msg' = [msg EXCEPT ![s] =
                        <<Message(time, stress_field, DefaultResult(damage_state'))>>]
    /\ last_time' = time
    /\ pc' = [pc EXCEPT ![s] = "sending"]
    /\ UNCHANGED <<scalers, pinn, time, fail, lstm_calls>>

\* lines 44-112, window full: lstm.predict returns and the message carries
\* its prediction and the rul
TickPrognostics(s) ==
    /\ pc[s] = "loop"
    /\ HasKeys
    /\ ticks < MaxTicks
    /\ LET stress_field == StressField(Snapshot(s))
       IN  /\ Evolve(s, stress_field)
           /\ WindowFull(history')
           /\ \E damage_pred \in LstmOutputs :
                msg' = [msg EXCEPT ![s] =
                          <<Message(time, stress_field, Prognosis(damage_pred))>>]
    /\ lstm_calls' = Append(lstm_calls, ticks')
    /\ last_time' = time
    /\ pc' = [pc EXCEPT ![s] = "sending"]
    /\ UNCHANGED <<scalers, pinn, time, fail>>

\* lines 44-102, window full: lstm.predict raises after the damage update
\* and the history append
TickLstmFail(s) ==
    /\ pc[s] = "loop"
    /\ HasKeys
    /\ ticks < MaxTicks
    /\ Evolve(s, StressField(Snapshot(s)))
    /\ WindowFull(history')
    /\ lstm_calls' = Append(lstm_calls, ticks')
    /\ pc' = Terminate(s)
    /\ fail' = [fail EXCEPT ![s] = "lstm"]
    /\ UNCHANGED <<scalers, pinn, time, msg, last_time>>

\* lines 112-123: send_json returns, the clock advances, the coroutine sleeps
SendOk(s) ==
    /\ pc[s] = "sending"
    /\ time' = time + TIME_STEP
    /\ pc' = [pc EXCEPT ![s] = "sleeping"]
    /\ msg' = [msg EXCEPT ![s] = <<>>]
    /\ UNCHANGED <<scalers, pinn, history, damage_state,
                   fail, ticks, pushed, trajectory, last_time, lstm_calls, pinn_calls>>

\* line 112: send_json raises (the client is gone)
SendFail(s) ==
    /\ pc[s] = "sending"
    /\ pc' = Terminate(s)
    /\ fail' = [fail EXCEPT ![s] = "send"]
    /\ msg' = [msg EXCEPT ![s] = <<>>]
    /\ UNCHANGED <<scalers, pinn, history, time, damage_state,
                   ticks, pushed, trajectory, last_time, lstm_calls, pinn_calls>>

\* line 123: the sleep ends and the loop starts over
Wake(s) ==
    /\ pc[s] = "sleeping"
    /\ pc' = [pc EXCEPT ![s] = "loop"]
    /\ UNCHANGED <<scalers, pinn, history, time, damage_state, msg,
                   fail, ticks, pushed, trajectory, last_time, lstm_calls, pinn_calls>>

Next ==
    \E s \in Sessions :
        \/ Connect(s)
        \/ TickKeyError(s)
        \/ TickPinnFail(s)
        \/ TickNoPrognostics(s)
        \/ TickPrognostics(s)
        \/ TickLstmFail(s)
        \/ SendOk(s)
        \/ SendFail(s)
        \/ Wake(s)

Spec == Init /\ [][Next]_vars

\* ------------------------------------------------------------- damage law alone
\* The damage update of lines 85-90 iterated over many ticks, the max_stress
\* of each tick drawn from values that are not negative.
NonNegStress == {0, 300}

LawInit ==
    /\ Init
    /\ scalers = FullTable
    /\ pinn = [bias |-> 400, wx |-> 40, wy |-> 20, nan |-> FALSE]

LawTick(max_stress) ==
    /\ ticks < MaxLawTicks
    /\ damage_state' = NextDamage(damage_state, max_stress)
    /\ ticks' = ticks + 1
    /\ UNCHANGED <<scalers, pinn, history, time, pc, msg, fail, pushed,
                   trajectory, last_time, lstm_calls, pinn_calls>>

LawNext == \E max_stress \in NonNegStress : LawTick(max_stress)

LawSpec == LawInit /\ [][LawNext]_vars

\* ============================================================= claims
InFlight(s) == msg[s] # <<>>
Formed(s) == msg[s] = <<>> /\ msg'[s] # <<>>
CollaboratorFailed(s) == fail[s] \in {"pinn", "lstm"}

\* C1: damage_state is non-decreasing across ticks, for every max_stress the
\* surrogate can produce, negative values included.
C1_DamageNonDecreasing == [][damage_state' >= damage_state]_vars

\* C2: a tick is never interleaved with another session's tick, so no two
\* tick results carry the same time value.  The clock never goes back and a
\* result carries the clock value at its formation, so a result repeats an
\* earlier time exactly when it repeats the time of the result formed last.
C2_DistinctResultTimes ==
    [][\A s \in Sessions : Formed(s) => msg'[s][1].time # last_time]_vars

\* every damage update reads the damage written by the update before it,
\* whichever session made either, and damage_state is the value written last
C3_OneTimeline ==
    /\ \A i \in 1..Len(trajectory) :
          trajectory[i].read =
              IF i = 1 THEN InitDamage ELSE trajectory[i - 1].written
    /\ damage_state =
          IF trajectory = <<>> THEN InitDamage
          ELSE trajectory[Len(trajectory)].written

C3_OnTrajectory(m) ==
    \E i \in 1..Len(trajectory) : trajectory[i].written = m.damage_prediction

\* C3 (as stated): there is one damage timeline for the process, and every
\* damage value reported to a session is a value of that timeline.
C3_AllReportedOnTrajectory ==
    /\ C3_OneTimeline
    /\ \A s \in Sessions : InFlight(s) => C3_OnTrajectory(msg[s][1])

\* C3 (amended): there is one damage timeline for the process; a damage value
\* reported without prognostics is a value of that timeline, and one reported
\* with prognostics is the output of the sequence model.
C3_SharedTimeline ==
    /\ C3_OneTimeline
    /\ \A s \in Sessions :
          InFlight(s) =>
              IF msg[s][1].rul = <<>>
              THEN C3_OnTrajectory(msg[s][1])
              ELSE msg[s][1].damage_prediction \in LstmOutputs

C3_Witness ==
    /\ pc[1] = "sending" /\ pc[2] = "sending"
    /\ msg[1][1].rul = <<>> /\ msg[2][1].rul = <<>>
    /\ msg[1][1].damage_prediction # msg[2][1].damage_prediction
    /\ Len(trajectory) >= 4

\* C4: the window never holds more than 10 samples; up to 10 pushes it holds
\* all of them, and from 10 pushes on exactly the last 10, oldest first.
C4_WindowIsLastTen ==
    /\ Len(history) <= 10
    /\ Len(pushed) <= 10 => history = pushed
    /\ Len(pushed) >= 10 => history = SubSeq(pushed, Len(pushed) - 9, Len(pushed))

C4_Witness ==
    /\ Len(pushed) >= 12
    /\ history[1] = pushed[Len(pushed) - 9]
    /\ history[1] # pushed[1]
    /\ history[1] # pushed[2]

\* C5: prognostics runs in a tick only with a window of exactly 10 samples;
\* counting the ticks that update the damage process-wide, it runs in the
\* 10th tick and in every later one, and in none before.
C5_PrognosticsFromTickTen ==
    /\ lstm_calls # <<>> => Len(history) = 10
    /\ Len(lstm_calls) = (IF ticks >= 10 THEN ticks - 9 ELSE 0)
    /\ \A i \in 1..Len(lstm_calls) : lstm_calls[i] = 9 + i

C5_Witness == ticks >= 11 /\ Len(lstm_calls) >= 2 /\ lstm_calls[1] = 10

\* C6: a result formed with a window that is not full has no rul and carries
\* the current damage_state as damage_prediction; a result formed with a full
\* window has a number as rul.
C6_RulOnlyWithFullWindow ==
    [][\A s \in Sessions :
         Formed(s) =>
            /\ Len(history') < 10 =>
                  /\ msg'[s][1].rul = <<>>
                  /\ msg'[s][1].damage_prediction = damage_state'
            /\ Len(history') = 10 =>
                  /\ Len(msg'[s][1].rul) = 1
                  /\ msg'[s][1].rul[1] \in Int
                  /\ ~IsNaN(msg'[s][1].rul[1])]_vars

C6_Witness ==
    /\ pc[1] = "sending" /\ pc[2] = "sending"
    /\ Len(history) = 10 /\ Len(trajectory) >= 10
    /\ msg[1][1].rul = <<>> /\ msg[1][1].damage_prediction = trajectory[9].written
    /\ msg[2][1].rul # <<>>

\* C7: with prognostics, rul = 0.9 - p for a prediction p < 0.9 and 0
\* otherwise; it is never negative (0.85 gives 0.05, 0.9 and 0.95 give 0).
C7_RulRule ==
    \A s \in Sessions :
        (InFlight(s) /\ msg[s][1].rul # <<>>) =>
            LET p == msg[s][1].damage_prediction
                r == msg[s][1].rul[1]
            IN  /\ r >= 0
                /\ (~IsNaN(p) /\ p < 90000) => r = 90000 - p
                /\ (IsNaN(p) \/ p >= 90000) => r = 0
                /\ p = 85000 => r = 5000
                /\ p = 95000 => r = 0

C7_Witness ==
    /\ InFlight(1) /\ InFlight(2)
    /\ msg[1][1].damage_prediction = 85000 /\ msg[1][1].rul = <<5000>>
    /\ msg[2][1].damage_prediction = 95000 /\ msg[2][1].rul = <<0>>

\* C8: a tick in which a collaborator call fails, or in which the surrogate
\* returns a non-finite value, leaves damage_state, the history window and
\* the clock as they were before the tick.
C8_FailedTickDiscarded ==
    [][/\ (\E s \in Sessions : ~CollaboratorFailed(s) /\ CollaboratorFailed(s)')
            => UNCHANGED <<damage_state, history, time>>
       /\ pinn.nan => UNCHANGED <<damage_state, history, time>>]_vars

\* C9: a collaborator failure in a tick does not end the session.
C9_SessionSurvivesCollaboratorFailure ==
    \A s \in Sessions : CollaboratorFailed(s) => pc[s] # "closed"

\* C10: a send failure ends the loop of the session it happens in and of no
\* other: the other sessions stand where they stood, a session is closed
\* only by a failure of its own, and damage_state, the history window and
\* the clock are not changed by the failure.
C10_SendFailureIsLocal ==
    [][\A s \in Sessions :
         (fail[s] = "none" /\ fail'[s] = "send") =>
            /\ pc'[s] = "closed"
            /\ UNCHANGED <<damage_state, history, time>>
            /\ \A t \in Sessions \ {s} :
                  /\ pc'[t] = pc[t] /\ msg'[t] = msg[t] /\ fail'[t] = fail[t]
                  /\ pc'[t] = "closed" => fail'[t] # "none"]_vars

C10_Witness ==
    /\ fail[1] = "send" /\ pc[1] = "closed"
    /\ pc[2] = "sending" /\ fail[2] = "none"
    /\ ticks >= 3 /\ time >= 1

\* C11: whenever no tick is in progress, the clock equals TIME_STEP times the
\* number of ticks that have updated damage_state, a tick whose send failed
\* included.
C11_ClockCountsTicks ==
    (\A s \in Sessions : pc[s] # "sending") => time = TIME_STEP * ticks

\* C12: a connect, a disconnect and a step taken while no session is attached
\* leave damage_state, the history window and the clock as they are, and every
\* tick, a late session's first one included, continues from the damage, the
\* window and the clock that the earlier ticks left.
C12_ConnectionsLeaveStateAlone ==
    [][/\ (\E s \in Sessions : pc[s] = "idle" /\ pc'[s] # "idle")
            => UNCHANGED <<damage_state, history, time>>
       /\ (\E s \in Sessions : fail[s] = "none" /\ fail'[s] = "send")
            => UNCHANGED <<damage_state, history, time>>
       /\ (\A s \in Sessions : pc[s] \in {"idle", "closed"})
            => UNCHANGED <<damage_state, history, time>>
       /\ ticks' = ticks + 1 =>
            /\ trajectory'[ticks'].read = damage_state
            /\ Len(history') >= Len(history)
            /\ history # <<>> => history'[Len(history') - 1] = history[Len(history)]
            /\ \A s \in Sessions : Formed(s) => msg'[s][1].time = time]_vars

C12_Witness ==
    /\ pc[1] = "closed" /\ fail[1] = "send"
    /\ pc[2] = "idle"
    /\ ticks >= 2 /\ ticks < MaxTicks
    /\ time >= 1 /\ damage_state # InitDamage /\ Len(history) = ticks

\* C13: with a scaler entry missing the service does not start: no client
\* connection is accepted.
C13_RefusesToStart ==
    ~HasKeys => \A s \in Sessions : pc[s] = "idle"

\* the stress of mesh point (ix, iy) at severity c, from the coordinates
\* (ix/R - 0.5) * L and (iy/R - 0.5) * H
C14_PointStress(ix, iy, c) ==
    LET px == ((2 * ix - RESOLUTION) * 1050) \div (2 * RESOLUTION)
        py == ((2 * iy - RESOLUTION) * 300) \div (2 * RESOLUTION)
        b  == pinn_predict(<<norm(px, "x"), norm(py, "y"), 0, 0, 0, 0>>)[2]
    IN  IF IsNaN(b) THEN NaN ELSE (b * (40000 + c)) \div 40000

\* C14: the stress_field of every tick has (R+1)^2 values, and the value at
\* index iy*(R+1)+ix (counted from 0) is the stress of mesh point (ix, iy):
\* y is the outer index, the field starts at (0, 0) and ends at (R, R), and
\* has 9 values for R = 2.
C14_FieldLayout ==
    [][\A s \in Sessions :
         Formed(s) =>
            LET f == msg'[s][1].stress_field
            IN  /\ Len(f) = (RESOLUTION + 1) * (RESOLUTION + 1)
                /\ RESOLUTION = 2 => Len(f) = 9
                /\ \A ix \in 0..RESOLUTION, iy \in 0..RESOLUTION :
                      f[iy * (RESOLUTION + 1) + ix + 1]
                          = C14_PointStress(ix, iy, damage_state)
                /\ f[1] = C14_PointStress(0, 0, damage_state)
                /\ f[Len(f)] = C14_PointStress(RESOLUTION, RESOLUTION, damage_state)]_vars

C14_Witness ==
    /\ pc[1] = "sending" /\ ticks >= 2
    /\ Len(msg[1][1].stress_field) = 9
    /\ ~IsNaN(msg[1][1].stress_field[1])
    /\ msg[1][1].stress_field[2] # msg[1][1].stress_field[4]
    /\ msg[1][1].stress_field[1] < msg[1][1].stress_field[9]

\* C15: damage_state always lies in [0, 1].
C15_DamageInUnitInterval == 0 <= damage_state /\ damage_state <= 100000

\* C16: a tick with previous damage d and (finite) max_stress m sets
\* damage_state to min(1.0, d + max(0, 0.002 + 0.00000004 * m)).
C16_GrowthLaw ==
    [][ticks' = ticks + 1 =>
         LET m == pushed'[ticks'][1]
             g == IF 200 + m > 0 THEN 200 + m ELSE 0
         IN  ~IsNaN(m) =>
                damage_state' =
                    IF damage_state + g < 100000 THEN damage_state + g ELSE 100000]_vars

\* C17: every value of a tick's stress field is base_stress * (1 + 2.5 * c)
\* for the one damage_state value c read at the start of the tick, before
\* the tick's damage update; with c = 0 it is base_stress.
C17_AmplificationLaw ==
    [][\A s \in Sessions :
         Formed(s) =>
            LET f == msg'[s][1].stress_field
                c == damage_state
            IN  /\ trajectory'[ticks'].read = c
                /\ \A k \in 1..Len(f) :
                      LET b == base_stress(LoopX(k), LoopY(k))
                      IN  /\ IsNaN(b) => IsNaN(f[k])
                          /\ ~IsNaN(b) =>
                                /\ f[k] = (b * (40000 + c)) \div 40000
                                /\ Amplify(b, 0) = b]_vars

C17_Witness ==
    /\ pc[1] = "sending" /\ ticks >= 2
    /\ ~IsNaN(msg[1][1].stress_field[1])
    /\ msg[1][1].stress_field[1] > base_stress(0, 0)
    /\ damage_state > InitDamage

\* C18: the surrogate is invoked exactly once per tick.
C18_OneSurrogateCallPerTick == ticks > 0 => pinn_calls = 1

\* C19: with every tick's max_stress >= 0, damage_state grows by at least
\* 0.002 per tick until it is 1.0, it is 1.0 after at most 475 ticks from
\* 0.05, and once it is 1.0 it is 1.0 after every later tick.
C19_ReachesOneAndStays ==
    /\ [](ticks >= 475 => damage_state = 100000)
    /\ [][ticks' = ticks + 1 =>
            /\ damage_state' >=
                  (IF damage_state + 200 < 100000 THEN damage_state + 200 ELSE 100000)
            /\ damage_state = 100000 => damage_state' = 100000]_vars

C19_Witness == ticks = 475 /\ damage_state = 100000

\* C20: the window never shrinks and is shared, so from the first result
\* with a numeric rul on, every result formed for any session, the first
\* result of a session that connects later included, has a numeric rul.
C20_RulStaysAvailable ==
    /\ [](\A s \in Sessions :
            (InFlight(s) /\ msg[s][1].rul # <<>>) => Len(history) = 10)
    /\ [][/\ Len(history') >= Len(history)
          /\ \A s \in Sessions :
                (Formed(s) /\ Len(history) = 10) => Len(msg'[s][1].rul) = 1]_vars

C20_Witness ==
    /\ pc[1] = "sending" /\ pc[2] = "sending"
    /\ msg[1][1].rul # <<>> /\ msg[2][1].rul # <<>>
    /\ Len(lstm_calls) >= 2

====
